---- MODULE Spec2Model ----
(***************************************************************************)
(* TDM_API: the TDM engine (src/tdm.py) and the calibrated audit endpoint  *)
(* (src/main.py).                                                          *)
(*                                                                         *)
(* Both programs are stateless between calls: the state of the model is    *)
(* the engine's configuration (moduli), the call in progress (op, arg),    *)
(* its outcome (out), the internal calls the handler made (calls) and what *)
(* a caller remembers of an earlier call (prev).                           *)
(*                                                                         *)
(* Python floats are modelled in binary fixed point: a real x is the       *)
(* integer floor(x * Scale).  An exception raised by a function is the     *)
(* record Err(kind); a returned value v is Ok(v).                          *)
(*                                                                         *)
(* TDM.generate_laudo, which formats a report into a text file and returns *)
(* nothing, is outside the model, and so are the log lines the engine      *)
(* writes and the timestamp of a report.                                   *)
(***************************************************************************)
EXTENDS Integers, Sequences, FiniteSets

VARIABLES moduli, op, arg, out, calls, prev

vars == <<moduli, op, arg, out, calls, prev>>

-----------------------------------------------------------------------------
(* Bounds of the model *)

\* largest integer handed to the engine
MaxN == 9
\* longest batch whose items are chosen freely
MaxLen == 2
\* how far over the request model's max_items a batch may go
MaxOver == 1
\* scores handed to the classifiers go up to MaxScoreHalves / 2
MaxScoreHalves == 12


-----------------------------------------------------------------------------
(* Fixed-point arithmetic standing for Python's float operations *)

Scale == 2 ^ 10

\* the value a / 1e-12 takes for a > 0: far above every threshold
Huge == 2 ^ 30

Ok(v) == [status |-> "ok", value |-> v]

Err(kind) == [status |-> "error", error |-> kind]

None == [status |-> "none"]

Abs(x) == IF x < 0 THEN -x ELSE x

\* a Python list: its items are evaluated once, in order, when it is built
List(items) == items \o <<>>

RECURSIVE SeqSum(_)
SeqSum(s) == IF s = <<>> THEN 0 ELSE Head(s) + SeqSum(Tail(s))

RECURSIVE SeqMin(_)
SeqMin(s) ==
    IF Len(s) = 1 THEN s[1]
    ELSE LET m == SeqMin(Tail(s)) IN IF s[1] < m THEN s[1] ELSE m

RECURSIVE SeqMax(_)
SeqMax(s) ==
    IF Len(s) = 1 THEN s[1]
    ELSE LET m == SeqMax(Tail(s)) IN IF s[1] > m THEN s[1] ELSE m

\* floor(sqrt(x)) by bisection on [lo, hi)
RECURSIVE SqrtBetween(_, _, _)
SqrtBetween(x, lo, hi) ==
    IF hi - lo <= 1 THEN lo
    ELSE LET mid == (lo + hi) \div 2
         IN  IF mid * mid <= x THEN SqrtBetween(x, mid, hi)
                               ELSE SqrtBetween(x, lo, mid)

ISqrt(x) == SqrtBetween(x, 0, 46341)

\* int.bit_length() of a machine-size integer: the number of bits of |n|,
\* the least b with |n| < 2^b
bit_length(n) ==
    IF Abs(n) >= 2 ^ 30 THEN 31
    ELSE CHOOSE b \in 0..30 :
            /\ Abs(n) < 2 ^ b
            /\ \A c \in 0..(b - 1) : Abs(n) >= 2 ^ c

\* the binary digits of log2(m / Scale) for Scale <= m < 2 * Scale,
\* by repeated squaring
RECURSIVE FracLog(_, _, _)
FracLog(m, bit, acc) ==
    IF bit = 0 THEN acc
    ELSE LET sq == (m * m) \div Scale
         IN  IF sq >= 2 * Scale
             THEN FracLog(sq \div 2, bit \div 2, acc + bit)
             ELSE FracLog(sq, bit \div 2, acc)

\* math.log2(k) for an integer k >= 1
Log2Int(k) ==
    LET e == bit_length(k) - 1
        m == IF k < 2 ^ 20 THEN (k * Scale) \div (2 ^ e)
                           ELSE k \div ((2 ^ e) \div Scale)
    IN  e * Scale + FracLog(m, Scale \div 2, 0)

\* math.log2(y) for a fixed-point y > 0
Log2Fx(y) == Log2Int(y) - Log2Int(Scale)

\* x * ln(2) for a fixed-point x, ln(2) = 0.693147
TimesLn2(x) ==
    (x \div 1000) * 693 + ((x % 1000) * 693) \div 1000 + (x * 147) \div 1000000

\* math.log(k) for an integer k >= 1
LnInt(k) == TimesLn2(Log2Int(k))

\* math.log(y) for a fixed-point y > 0
LnFx(y) == TimesLn2(Log2Fx(y))

\* a * b of two fixed-point values, a >= 0, split so that no product overflows
MulFx(a, b) == (a \div Scale) * b + ((a % Scale) * b) \div Scale

\* a / (b + 1e-12) for fixed-point a >= 0, b >= 0: the epsilon only matters
\* when b is zero
DivEps(a, b) ==
    IF b = 0 THEN (IF a = 0 THEN 0 ELSE Huge) ELSE (a * Scale) \div b

\* statistics.mean of a sequence of integers
MeanInt(xs) == (SeqSum(xs) * Scale) \div Len(xs)

\* statistics.pstdev of a sequence of integers
PStdevInt(xs) ==
    LET n   == Len(xs)
        sq  == SeqSum(List([i \in 1..n |-> xs[i] * xs[i]]))
        s   == SeqSum(xs)
        num == n * sq - s * s
    IN  (ISqrt(num * Scale) * ISqrt(Scale)) \div n

\* statistics.mean of a sequence of fixed-point values (exact for one value)
MeanFx(xs) == SeqSum(xs) \div Len(xs)

\* statistics.pstdev of a sequence of fixed-point values
PStdevFx(xs) ==
    LET n  == Len(xs)
        mu == MeanFx(xs)
        sq == SeqSum(List([i \in 1..n |-> (xs[i] - mu) * (xs[i] - mu)]))
    IN  ISqrt(sq \div n)

-----------------------------------------------------------------------------
(* src/tdm.py: the TDM engine *)

DefaultModuli == <<3, 5, 7, 11, 13, 17, 19, 23, 29, 31, 37, 41, 43, 47, 53>>

\* TDM.__init__: `moduli or [...]`, an empty or missing list is the default
TDMInit(m) == IF m = <<>> THEN DefaultModuli ELSE m

\* the moduli arguments engines are constructed with
ModuliArgs == {<<>>, <<7>>, <<3, 5>>, <<3, 5, 7, 11, 13>>}

RECURSIVE StripTwos(_)
StripTwos(n) == IF n % 2 = 0 THEN StripTwos(n \div 2) ELSE n

preprocess(n) == IF n <= 1 THEN Err("ValueError") ELSE Ok(StripTwos(n))

\* math.log raises ValueError on n <= 0; nothing else in the body checks n
structural_map(mods, n) ==
    IF n <= 0 THEN Err("ValueError")
    ELSE Ok([residues   |-> List([i \in 1..Len(mods) |-> n % mods[i]]),
             bit_length |-> bit_length(n),
             log_scale  |-> LnInt(n)])

\* TDM._entropy: one term per distinct value, in order of first occurrence
Entropy(data) ==
    LET total == Len(data)
        count(x) == Cardinality({j \in 1..total : data[j] = x})
        first(i) == \A j \in 1..(i - 1) : data[j] # data[i]
        term(c)  == (c * (Log2Int(total) - Log2Int(c))) \div total
    IN  SeqSum(List([i \in 1..total |->
                       IF first(i) THEN term(count(data[i])) ELSE 0]))

\* TDM._residual_symmetry
ResidualSymmetry(residues) ==
    LET diffs == List([i \in 1..(Len(residues) - 1) |->
                         Abs(residues[i + 1] - residues[i])])
    IN  IF diffs # <<>> THEN PStdevInt(diffs) ELSE 0

\* the record TDM.operator returns, from the values its body computes;
\* entropy / math.log2(len(self.moduli)) raises ZeroDivisionError when the
\* divisor is 0.0
Features(mean, stdev, entropy, divisor, symmetry, scale) ==
    IF divisor = 0 THEN Err("ZeroDivisionError")
    ELSE Ok([mean         |-> mean,
             stdev        |-> stdev,
             entropy      |-> entropy,
             entropy_norm |-> (entropy * Scale) \div divisor,
             symmetry     |-> symmetry,
             dispersion   |-> DivEps(stdev, mean),
             scale        |-> scale])

\* TDM.operator
operator(mods, structure) ==
    Features(MeanInt(structure.residues),
             PStdevInt(structure.residues),
             Entropy(structure.residues),
             Log2Int(Len(mods)),
             ResidualSymmetry(structure.residues),
             structure.log_scale)

extract_trace(features) ==
      features.mean
    + 2 * features.stdev
    + 3 * features.entropy_norm
    + features.symmetry
    + features.dispersion
    + features.scale \div 100

LabelReal == "COMPATIVEL_COM_CHAVE_REAL"
LabelSuspect == "SUSPEITA_ESTRUTURAL"
LabelArtificial == "PROVAVEL_CHAVE_ARTIFICIAL"

\* classify, were its comparisons strict
classify_strict(score) ==
    IF score > (9 * Scale) \div 2 THEN LabelArtificial
    ELSE IF score > 3 * Scale THEN LabelSuspect
    ELSE LabelReal

classify(score) ==
    IF score >= (9 * Scale) \div 2 THEN LabelArtificial
    ELSE IF score >= 3 * Scale THEN LabelSuspect
    ELSE LabelReal

(* TDM.compute is a chain of four calls; an exception raised by one of     *)
(* them ends the chain and is what compute raises.  Each step below takes  *)
(* what the step before returned.                                          *)

\* trace = self.extract_trace(features), and the returned record
ComputeTrace(n, features) ==
    IF features.status = "error" THEN features
    ELSE Ok([number   |-> n,
             trace    |-> extract_trace(features.value),
             features |-> features.value])

\* features = self.operator(structure)
ComputeFeatures(mods, n, structure) ==
    IF structure.status = "error" THEN structure
    ELSE ComputeTrace(n, operator(mods, structure.value))

\* structure = self.structural_map(n0)
ComputeStructure(mods, n, n0) ==
    IF n0.status = "error" THEN n0
    ELSE ComputeFeatures(mods, n, structural_map(mods, n0.value))

\* TDM.compute: n0 = self.preprocess(n), then the rest of the chain
compute(mods, n) == ComputeStructure(mods, n, preprocess(n))

\* the calls TDM.compute makes, in order, each with what it returned
LogOperator(log, mods, structure) ==
    IF structure.status = "error" THEN log
    ELSE Append(log, [fn |-> "operator", arg |-> structure.value,
                      ret |-> operator(mods, structure.value)])

LogStructure(log, mods, n0val, structure) ==
    LogOperator(Append(log, [fn |-> "structural_map", arg |-> n0val,
                             ret |-> structure]),
                mods, structure)

LogPreprocess(mods, n, n0) ==
    IF n0.status = "error"
    THEN <<[fn |-> "preprocess", arg |-> n, ret |-> n0]>>
    ELSE LogStructure(<<[fn |-> "preprocess", arg |-> n, ret |-> n0]>>,
                      mods, n0.value, structural_map(mods, n0.value))

ComputeLog(mods, n) == LogPreprocess(mods, n, preprocess(n))

\* the position of the first evaluation that raised, 0 when none did
FirstError(evals) ==
    IF \A i \in 1..Len(evals) : evals[i].status = "ok" THEN 0
    ELSE CHOOSE i \in 1..Len(evals) :
            /\ evals[i].status = "error"
            /\ \A j \in 1..(i - 1) : evals[j].status = "ok"

\* the integers the list comprehension of TDM.audit called compute for: up
\* to and including the first one that raised
CallsUpTo(numbers, stop) ==
    IF stop = 0 THEN numbers ELSE SubSeq(numbers, 1, stop)

ComputeCalls(mods, numbers) ==
    CallsUpTo(numbers,
              FirstError(List([i \in 1..Len(numbers) |->
                                 compute(mods, numbers[i])])))

\* AuditResult, were the report to carry the normalized integer
AuditResultNormalized(e, score) ==
    [number         |-> StripTwos(e.number),
     trace          |-> e.trace,
     anomaly_score  |-> score,
     classification |-> classify(score)]

\* one entry of results, from an evaluation and the baseline
AuditResult(e, score) ==
    [number         |-> e.number,
     trace          |-> e.trace,
     anomaly_score  |-> score,
     classification |-> classify(score)]

\* the report, from the evaluations and the baseline
AuditReport(evals, baseline) ==
    Ok([tdm_version |-> "TDM-ENGINE-CORE-1.0",
        baseline    |-> baseline,
        results     |->
           List([i \in 1..Len(evals) |->
                   AuditResult(evals[i].value,
                               DivEps(Abs(evals[i].value.trace - baseline.mean),
                                      baseline.stdev))])])

\* baseline: statistics.mean raises StatisticsError on no data
AuditBaseline(evals, traces) ==
    IF traces = <<>> THEN Err("StatisticsError")
    ELSE AuditReport(evals, [mean  |-> MeanFx(traces),
                             stdev |-> PStdevFx(traces),
                             min   |-> SeqMin(traces),
                             max   |-> SeqMax(traces)])

\* what TDM.audit does with the evaluations: the first exception of the list
\* comprehension propagates, else the traces are collected
AuditEvaluations(evals, stop) ==
    IF stop # 0 THEN evals[stop]
    ELSE AuditBaseline(evals,
                       List([i \in 1..Len(evals) |-> evals[i].value.trace]))

AuditFrom(evals) == AuditEvaluations(evals, FirstError(evals))

\* TDM.audit
audit(mods, numbers) ==
    AuditFrom(List([i \in 1..Len(numbers) |-> compute(mods, numbers[i])]))

-----------------------------------------------------------------------------
(* src/main.py: the calibrated audit *)

(* The integers the endpoint scores have more than a thousand bits.  An    *)
(* integer is its sign and the decimal digits of its magnitude, most       *)
(* significant first; a request names it by its position in Universe.      *)

Repeat(block, times) ==
    List([i \in 1..(Len(block) * times) |-> block[((i - 1) % Len(block)) + 1]])

Pos(digits) == [neg |-> FALSE, digits |-> digits]

Neg(digits) == [neg |-> TRUE, digits |-> digits]

\* the decimal digits of 2^1023, the smallest integer of 1024 bits
TwoTo1023 ==
    <<8, 9, 8, 8, 4, 6, 5, 6, 7, 4, 3, 1, 1, 5, 7, 9, 5, 3, 8, 6, 4, 6, 5, 2, 5, 9, 5, 3,
      9, 4, 5, 1, 2, 3, 6, 6, 8, 0, 8, 9, 8, 8, 4, 8, 9, 4, 7, 1, 1, 5, 3, 2, 8, 6, 3, 6,
      7, 1, 5, 0, 4, 0, 5, 7, 8, 8, 6, 6, 3, 3, 7, 9, 0, 2, 7, 5, 0, 4, 8, 1, 5, 6, 6, 3,
      5, 4, 2, 3, 8, 6, 6, 1, 2, 0, 3, 7, 6, 8, 0, 1, 0, 5, 6, 0, 0, 5, 6, 9, 3, 9, 9, 3,
      5, 6, 9, 6, 6, 7, 8, 8, 2, 9, 3, 9, 4, 8, 8, 4, 4, 0, 7, 2, 0, 8, 3, 1, 1, 2, 4, 6,
      4, 2, 3, 7, 1, 5, 3, 1, 9, 7, 3, 7, 0, 6, 2, 1, 8, 8, 8, 8, 3, 9, 4, 6, 7, 1, 2, 4,
      3, 2, 7, 4, 2, 6, 3, 8, 1, 5, 1, 1, 0, 9, 8, 0, 0, 6, 2, 3, 0, 4, 7, 0, 5, 9, 7, 2,
      6, 5, 4, 1, 4, 7, 6, 0, 4, 2, 5, 0, 2, 8, 8, 4, 4, 1, 9, 0, 7, 5, 3, 4, 1, 1, 7, 1,
      2, 3, 1, 4, 4, 0, 7, 3, 6, 9, 5, 6, 5, 5, 5, 2, 7, 0, 4, 1, 3, 6, 1, 8, 5, 8, 1, 6,
      7, 5, 2, 5, 5, 3, 4, 2, 2, 9, 3, 1, 4, 9, 1, 1, 9, 9, 7, 3, 6, 2, 2, 9, 6, 9, 2, 3,
      9, 8, 5, 8, 1, 5, 2, 4, 1, 7, 6, 7, 8, 1, 6, 4, 8, 1, 2, 1, 1, 2, 0, 6, 8, 6, 0, 8>>

\* the integers requests are made of
Universe ==
    << Pos(<<0>>),
       Neg(<<5>>),
       Pos(<<9, 7>>),
       Pos(Repeat(<<9>>, 28)),
       Pos([TwoTo1023 EXCEPT ![Len(TwoTo1023)] = @ - 1]),
       Pos(TwoTo1023),
       Pos(Repeat(<<1, 2, 3, 4, 5, 6, 7, 8, 9, 0>>, 31)),
       Pos(Repeat(<<8, 6, 4, 2, 0, 9, 7, 5, 3, 1>>, 31)),
       Pos(Repeat(<<7>>, 310)),
       Neg(Repeat(<<1, 2, 3, 4, 5, 6, 7, 8, 9, 0>>, 31)) >>

\* a request names an integer by its position in Universe
Keys == DOMAIN Universe

\* the character '-' of str(n), beside the digits 0..9
Minus == 9 + 1

\* str(n)
Str(n) ==
    IF Universe[n].neg THEN <<Minus>> \o Universe[n].digits
    ELSE Universe[n].digits

\* the value of a digit sequence that fits a machine integer
RECURSIVE DigitsValue(_)
DigitsValue(d) ==
    IF d = <<>> THEN 0 ELSE 10 * DigitsValue(SubSeq(d, 1, Len(d) - 1)) + d[Len(d)]

StripZeros(d) ==
    LET nz == {i \in 1..Len(d) : d[i] # 0}
    IN  IF nz = {} THEN <<0>>
        ELSE SubSeq(d, CHOOSE i \in nz : \A j \in nz : i <= j, Len(d))

\* floor(d / 2^8) on decimal digits: 10^8 is a multiple of 2^8, so the
\* remainder carried into position i is that of the 8 digits before it
ShiftRight8(d) ==
    LET at(i) == IF i >= 1 THEN d[i] ELSE 0
        before(i) == at(i - 1) + 10 * at(i - 2) + 100 * at(i - 3)
                     + 1000 * at(i - 4) + 10000 * at(i - 5)
                     + 100000 * at(i - 6) + 1000000 * at(i - 7)
                     + 10000000 * at(i - 8)
    IN  StripZeros(List([i \in 1..Len(d) |->
                           ((before(i) % 256) * 10 + d[i]) \div 256]))

\* floor(d / 2^(8 * times)): half of the passes, then the other half
RECURSIVE ShiftRight(_, _)
ShiftRight(d, times) ==
    IF times = 0 \/ d = <<0>> THEN d
    ELSE IF times = 1 THEN ShiftRight8(d)
    ELSE ShiftRight(ShiftRight(d, times \div 2), times - times \div 2)

\* a number of passes after which an integer of len digits is still at or
\* above 10^9: 2^(8 * passes) <= 10^(len - 10), as 3.321928 < log2(10)
SafePasses(len) ==
    IF len <= 10 THEN 0 ELSE ((len - 10) * 3321928) \div 8000000

\* <<v, e>> with floor(d / 2^e) = v and v below 10^9, e the least such
\* multiple of 8 from e on
RECURSIVE TopBits(_, _)
TopBits(d, e) ==
    IF Len(d) <= 9 THEN <<DigitsValue(d), e>> ELSE TopBits(ShiftRight8(d), e + 8)

\* the leading bits of the integer of digits d, and how many bits follow them
LeadingOf(d, passes) == TopBits(ShiftRight(d, passes), 8 * passes)

\* the leading bits and the binary exponent of every integer of Universe,
\* computed once: pairs <<n, leading bits and exponent of n>>
LeadingTable ==
    {<<n, LeadingOf(Universe[n].digits, SafePasses(Len(Universe[n].digits)))>> :
        n \in Keys}

Leading(n) == (CHOOSE p \in LeadingTable : p[1] = n)[2]

BitsOf(t) == IF t[1] = 0 THEN 0 ELSE bit_length(t[1]) + t[2]

\* n.bit_length()
BitLength(n) == BitsOf(Leading(n))

LnOf(t) == TimesLn2(Log2Int(t[1]) + t[2] * Scale)

\* math.log(n) for n > 0: log of the leading bits plus the exponent times ln 2
LnBig(n) == LnOf(Leading(n))

\* the bit-length floor of crypto_sanity_check
MinBits == 1024

\* AuditRequest.numbers: min_items and max_items
MinItems == 1
MaxItems == 10

\* AuditRequest.sensitivity: ge and le, in tenths
MinSensitivity == 1
MaxSensitivity == 50

ReasonNames ==
    <<"low_decimal_entropy", "digit_repetition", "low_symbol_diversity",
      "decimal_all_nines", "insufficient_bit_length">>

\* Counter(str(n)): how often each character occurs, computed once:
\* triples <<n, character, occurrences>>
CounterTable ==
    {<<n, c, Cardinality({i \in 1..Len(Str(n)) : Str(n)[i] = c})>> :
        n \in Keys, c \in 0..Minus}

Counter(n) ==
    [c \in 0..Minus |-> (CHOOSE t \in CounterTable : t[1] = n /\ t[2] = c)[3]]

\* -sum((c/L) * math.log2(c/L) for c in freq.values())
DigitEntropy(L, freq) ==
    SeqSum(List([c \in 1..(Minus + 1) |->
                   IF freq[c - 1] = 0 THEN 0
                   ELSE (freq[c - 1] * (Log2Int(L) - Log2Int(freq[c - 1]))) \div L]))

\* the five tests of crypto_sanity_check, in order, on str(n) of length L
\* with character counts freq
SanityHits(n, L, freq) ==
    << DigitEntropy(L, freq) < (28 * Scale) \div 10,
       \E c \in 0..Minus : 4 * freq[c] > L,
       Cardinality({c \in 0..Minus : freq[c] > 0}) <= 2,
       ~Universe[n].neg /\ freq[9] = L,
       BitLength(n) < MinBits >>

ReasonsOf(hit) ==
    SelectSeq(ReasonNames, LAMBDA r : \E i \in 1..5 : ReasonNames[i] = r /\ hit[i])

crypto_sanity_check(n) == ReasonsOf(SanityHits(n, Len(Str(n)), Counter(n)))

\* x * math.log(x + 1)
TimesLogOfNext(x) == MulFx(x, LnFx(x + Scale))

\* math.log raises ValueError on n <= 0
structural_invariant(n) ==
    IF Universe[n].neg \/ Universe[n].digits = <<0>> THEN Err("ValueError")
    ELSE Ok(TimesLogOfNext(LnBig(n)))

rsa_expected_invariant(bitlen) == TimesLogOfNext(TimesLn2(bitlen * Scale))

rsa_expected_deviation(bitlen) ==
    (15 * ISqrt(bitlen * Scale) * ISqrt(Scale)) \div 1000

\* abs(inv - expected) / deviation; an exception of structural_invariant
\* propagates
Deviation(inv, expected, deviation) ==
    IF inv.status = "error" THEN inv
    ELSE Ok((Abs(inv.value - expected) * Scale) \div deviation)

calibrated_anomaly_score(n) ==
    Deviation(structural_invariant(n),
              rsa_expected_invariant(BitLength(n)),
              rsa_expected_deviation(BitLength(n)))

classify_structure(score) ==
    IF score < 2 * Scale
    THEN <<"RSA-compatible",
           "Structural behavior consistent with calibrated RSA models (1024-8192 bits)">>
    ELSE IF score < 5 * Scale
    THEN <<"atypical",
           "Structurally plausible but statistically rare for calibrated RSA generation">>
    ELSE <<"artificial-structure",
           "Structural deviation incompatible with realistic RSA generation">>

\* the text is a template chosen by the label, filled with n
generate_human_report(n, classification) ==
    [n |-> n,
     text |-> CASE classification = "RSA-compatible" -> "compatible"
                [] classification = "atypical" -> "plausible but rare"
                [] classification = "artificial-structure" -> "incompatible"
                [] OTHER -> "rejected: below the sanity criteria"]

\* round(x, 3): the nearest multiple of 0.001, counted in thousandths
Round3(x) == (x * 1000 + Scale \div 2) \div Scale

\* crypto_sanity_check(n) and calibrated_anomaly_score(n) of every integer of
\* Universe, computed once: both are functions of n alone
SanityTable == {<<n, crypto_sanity_check(n)>> : n \in Keys}

ScoreTable == {<<n, calibrated_anomaly_score(n)>> : n \in Keys}

InvariantTable == {<<n, structural_invariant(n)>> : n \in Keys}

Reasons(n) == (CHOOSE p \in SanityTable : p[1] = n)[2]

RawScore(n) == (CHOOSE p \in ScoreTable : p[1] = n)[2]

Invariant(n) == (CHOOSE p \in InvariantTable : p[1] = n)[2]

\* AuditRequest: numbers has min_items..max_items entries and sensitivity,
\* counted in tenths, lies in [0.1, 5.0]
AuditRequestValid(req) ==
    /\ Len(req.numbers) >= MinItems
    /\ Len(req.numbers) <= MaxItems
    /\ req.sensitivity >= MinSensitivity
    /\ req.sensitivity <= MaxSensitivity

\* the entry of an integer the sanity filter rejects
RejectedEntry(n, reasons) ==
    [number         |-> n,
     bit_length     |-> BitLength(n),
     classification |-> "artificial",
     technical_note |-> "Rejected by cryptographic sanity filters",
     reasons        |-> reasons,
     human_report   |-> [n |-> n, text |-> "rejected: incompatible with RSA"]]

\* the entry of an integer that is scored: score is calibrated_anomaly_score
\* times the sensitivity, label what classify_structure returned for it
ScoredEntry(n, score, label) ==
    [number               |-> n,
     bit_length           |-> BitLength(n),
     structural_invariant |-> Invariant(n).value,
     anomaly_score        |-> Round3(score),
     classification       |-> label[1],
     technical_note       |-> label[2],
     human_report         |-> generate_human_report(n, label[1])]

\* score = calibrated_anomaly_score(n) * req.sensitivity and what follows it
ScoreEntry(n, raw, sensitivity) ==
    IF raw.status = "error" THEN raw
    ELSE Ok(ScoredEntry(n, (raw.value * sensitivity) \div 10,
                        classify_structure((raw.value * sensitivity) \div 10)))

\* FilterEntry, were the loop to go on to the scoring after a rejection
FilterEntryNoContinue(n, reasons, sensitivity) ==
    ScoreEntry(n, RawScore(n), sensitivity)

\* one turn of the loop of the endpoint, for the integer n
FilterEntry(n, reasons, sensitivity) ==
    IF reasons # <<>> THEN Ok(RejectedEntry(n, reasons))
    ELSE ScoreEntry(n, RawScore(n), sensitivity)

\* LoopEntry, were the score taken relative to the size of the batch
LoopEntryPeers(req, i) ==
    FilterEntry(req.numbers[i], Reasons(req.numbers[i]),
                req.sensitivity * Len(req.numbers))

LoopEntry(req, i) == FilterEntry(req.numbers[i], Reasons(req.numbers[i]), req.sensitivity)

\* the response, once every turn of the loop is done: the first exception
\* ends the call without a response body
Response(entries, stop) ==
    IF stop # 0 THEN entries[stop]
    ELSE Ok([engine      |-> "TDM-R Structural Engine",
             calibration |-> "RSA-1024 -> RSA-8192",
             mode        |-> "audit-only",
             results     |-> List([i \in 1..Len(entries) |-> entries[i].value])])

ResponseFrom(entries) == Response(entries, FirstError(entries))

\* POST /api/v1/tdm/audit: the request model is validated before the handler
\* runs
post_audit(req) ==
    IF ~AuditRequestValid(req) THEN Err("ValidationError")
    ELSE ResponseFrom(List([i \in 1..Len(req.numbers) |-> LoopEntry(req, i)]))

\* the integers calibrated_anomaly_score was invoked for during the call, in
\* order: those the filter let through, up to the first one that raised
ScoredUpTo(numbers) == SelectSeq(numbers, LAMBDA n : Reasons(n) = <<>>)

ScoringCalls(req) ==
    IF ~AuditRequestValid(req) THEN <<>>
    ELSE ScoredUpTo(CallsUpTo(req.numbers,
            FirstError(List([i \in 1..Len(req.numbers) |-> LoopEntry(req, i)]))))

\* GET /api/v1/tdm/health
health ==
    Ok([status      |-> "ok",
        engine      |-> "TDM-R Structural Engine",
        calibration |-> "RSA-1024 -> RSA-8192",
        mode        |-> "analysis-only"])

-----------------------------------------------------------------------------
(* Calls *)

\* integers handed to the engine
Values == (-1)..MaxN

\* batches handed to TDM.audit: every short batch, and longer alternating ones
\* up to MaxOver items past the request model's maximum
Batches ==
    UNION {[1..k -> Values] : k \in 0..MaxLen}
    \cup {List([i \in 1..k |-> IF i % 2 = 1 THEN v ELSE w]) :
             v \in {3, 6}, w \in {5, 7}, k \in (MaxLen + 1)..(MaxItems + MaxOver)}

\* requests sent to the endpoint: every short batch of integers of Universe,
\* longer ones around the maximum, sensitivities inside and outside the range
Requests ==
    [numbers : UNION {[1..k -> Keys] : k \in 0..MaxLen}
               \cup {List([i \in 1..k |-> IF i % 2 = 1 THEN v ELSE w]) :
                       v \in {3, 7}, w \in {6, 8},
                       k \in MaxItems..(MaxItems + MaxOver)},
     sensitivity : {MinSensitivity - 1, MinSensitivity, 10,
                    MaxSensitivity, MaxSensitivity + 1}]

\* scores handed to the classifiers: every half unit and its two neighbours
Scores ==
    {s \in {h * (Scale \div 2) + d : h \in 0..MaxScoreHalves, d \in {-1, 0, 1}} :
        s >= 0}

Init ==
    /\ moduli \in {TDMInit(m) : m \in ModuliArgs}
    /\ op = "idle"
    /\ arg = None
    /\ out = None
    /\ calls = <<>>
    /\ prev = None

Preprocess ==
    /\ op = "idle"
    /\ \E n \in Values :
         /\ arg' = n
         /\ out' = preprocess(n)
    /\ op' = "preprocess"
    /\ UNCHANGED <<moduli, calls, prev>>

\* the caller hands the value preprocess returned back to preprocess
PreprocessAgain ==
    /\ op = "preprocess"
    /\ prev = None
    /\ out.status = "ok"
    /\ prev' = [op |-> op, arg |-> arg, out |-> out]
    /\ arg' = out.value
    /\ out' = preprocess(out.value)
    /\ UNCHANGED <<moduli, op, calls>>

StructuralMap ==
    /\ op = "idle"
    /\ \E n \in Values :
         /\ arg' = n
         /\ out' = structural_map(moduli, n)
    /\ op' = "structural_map"
    /\ UNCHANGED <<moduli, calls, prev>>

Compute ==
    /\ op = "idle"
    /\ \E n \in Values :
         /\ arg' = n
         /\ out' = compute(moduli, n)
         /\ calls' = ComputeLog(moduli, n)
    /\ op' = "compute"
    /\ UNCHANGED <<moduli, prev>>

Audit ==
    /\ op = "idle"
    /\ \E numbers \in Batches :
         /\ arg' = numbers
         /\ out' = audit(moduli, numbers)
         /\ calls' = ComputeCalls(moduli, numbers)
    /\ op' = "audit"
    /\ UNCHANGED <<moduli, prev>>

Classify ==
    /\ op = "idle"
    /\ \E score \in Scores :
         /\ arg' = score
         /\ out' = classify(score)
    /\ op' = "classify"
    /\ UNCHANGED <<moduli, calls, prev>>

ClassifyStructure ==
    /\ op = "idle"
    /\ \E score \in Scores :
         /\ arg' = score
         /\ out' = classify_structure(score)[1]
    /\ op' = "classify_structure"
    /\ UNCHANGED <<moduli, calls, prev>>

PostAudit ==
    /\ op = "idle"
    /\ \E req \in Requests :
         /\ arg' = req
         /\ out' = post_audit(req)
         /\ calls' = ScoringCalls(req)
    /\ op' = "post_audit"
    /\ UNCHANGED <<moduli, prev>>

Health ==
    /\ op = "idle"
    /\ op' = "health"
    /\ arg' = None
    /\ out' = health
    /\ UNCHANGED <<moduli, calls, prev>>

\* the call is over and nothing of it is kept: neither program has state
Return ==
    /\ op # "idle"
    /\ op' = "idle"
    /\ arg' = None
    /\ out' = None
    /\ calls' = <<>>
    /\ prev' = None
    /\ UNCHANGED moduli

\* the call is over and the caller keeps what it asked and what it got
ReturnKeep ==
    /\ op \in {"classify", "classify_structure"}
    /\ prev' = [op |-> op, arg |-> arg, out |-> out]
    /\ op' = "idle"
    /\ arg' = None
    /\ out' = None
    /\ calls' = <<>>
    /\ UNCHANGED moduli

\* the audit is over and the caller keeps one entry of the response, with
\* the sensitivity it asked for
ReturnKeepEntry ==
    /\ op = "post_audit"
    /\ out.status = "ok"
    /\ \E i \in 1..Len(out.value.results) :
         prev' = [op |-> op, sensitivity |-> arg.sensitivity,
                  entry |-> out.value.results[i]]
    /\ op' = "idle"
    /\ arg' = None
    /\ out' = None
    /\ calls' = <<>>
    /\ UNCHANGED moduli

\* the audit is over and the caller keeps what it kept before
ReturnSame ==
    /\ op = "post_audit"
    /\ op' = "idle"
    /\ arg' = None
    /\ out' = None
    /\ calls' = <<>>
    /\ UNCHANGED <<moduli, prev>>

Next ==
    \/ Preprocess
    \/ PreprocessAgain
    \/ StructuralMap
    \/ Compute
    \/ Audit
    \/ Classify
    \/ ClassifyStructure
    \/ PostAudit
    \/ Health
    \/ Return

\* both programs, call after call
Spec == Init /\ [][Next]_vars

InitCal ==
    /\ moduli = TDMInit(<<>>)
    /\ op = "idle"
    /\ arg = None
    /\ out = None
    /\ calls = <<>>
    /\ prev = None

NextCal ==
    \/ PostAudit
    \/ ReturnKeepEntry
    \/ ReturnSame

\* the endpoint, with a caller that compares entries across responses
SpecCal == InitCal /\ [][NextCal]_vars

NextClassify ==
    \/ Classify
    \/ ClassifyStructure
    \/ ReturnKeep

\* the two classifiers, with a caller that compares successive labels
SpecClassify == InitCal /\ [][NextClassify]_vars

-----------------------------------------------------------------------------
(* Properties *)

Range(s) == {s[i] : i \in DOMAIN s}

\* the caller remembers an earlier call
HasPrev == "op" \in DOMAIN prev

\* the integer named n is zero or negative
NonPositive(n) == Universe[n].neg \/ Universe[n].digits = <<0>>

\* the severity order of the labels of both classifiers
Severity(label) ==
    CASE label \in {LabelReal, "RSA-compatible"} -> 1
      [] label \in {LabelSuspect, "atypical"} -> 2
      [] label \in {LabelArtificial, "artificial-structure"} -> 3

\* C1: applying preprocess to what preprocess returned for a valid n succeeds
\* and returns the same value, which has no factor of two left.
C1_PreprocessIdempotent ==
    (op = "preprocess" /\ HasPrev) =>
        /\ out.status = "ok"
        /\ out.value = prev.out.value
        /\ out.value % 2 = 1

\* C2: an audit of a batch holding an integer <= 0 ends in an error for the
\* whole call, in the engine and in the endpoint; and every audit either ends
\* in an error or returns a report with one result per integer of the batch.
C2_AuditFailsAtomically ==
    /\ op = "audit" =>
          /\ (\E i \in 1..Len(arg) : arg[i] <= 0) => out.status = "error"
          /\ out.status = "ok" => Len(out.value.results) = Len(arg)
    /\ op = "post_audit" =>
          /\ (\E i \in 1..Len(arg.numbers) : NonPositive(arg.numbers[i]))
                => out.status = "error"
          /\ out.status = "ok" => Len(out.value.results) = Len(arg.numbers)

C4_ClassificationMonotonic ==
    /\ op = "classify" =>
          out = IF arg < 3 * Scale THEN LabelReal
                ELSE IF 2 * arg >= 9 * Scale THEN LabelArtificial
                ELSE LabelSuspect
    /\ op = "classify_structure" =>
          out = IF arg < 2 * Scale THEN "RSA-compatible"
                ELSE IF arg >= 5 * Scale THEN "artificial-structure"
                ELSE "atypical"
    /\ (op \in {"classify", "classify_structure"} /\ HasPrev /\ prev.op = op) =>
          /\ prev.arg <= arg => Severity(prev.out) <= Severity(out)
          /\ prev.arg >= arg => Severity(prev.out) >= Severity(out)

\* a score exactly on the second breakpoint of TDM.classify, after a score
\* just below it
C4_Witness ==
    /\ op = "classify"
    /\ HasPrev
    /\ prev.op = "classify"
    /\ 2 * arg = 9 * Scale
    /\ prev.arg = arg - 1
    /\ prev.out = LabelSuspect
    /\ out = LabelArtificial

\* C5: TDM.audit of a single valid n returns a report with one result, a
\* baseline with min = max = mean = trace(n) and stdev 0, and anomaly score 0
\* with the lowest label.
C5_SingleItemBatch ==
    (op = "audit" /\ Len(arg) = 1 /\ arg[1] > 1) =>
        /\ out.status = "ok"
        /\ Len(out.value.results) = 1
        /\ out.value.baseline.min = out.value.results[1].trace
        /\ out.value.baseline.max = out.value.results[1].trace
        /\ out.value.baseline.mean = out.value.results[1].trace
        /\ out.value.baseline.stdev = 0
        /\ out.value.results[1].anomaly_score = 0
        /\ out.value.results[1].classification = LabelReal

\* C6: every report has one result per integer of the batch, and the result
\* at position i carries the i-th integer as the caller gave it; in the
\* endpoint as in the engine, rejected integers included.
C6_ResultsEchoInputOrder ==
    /\ (op = "audit" /\ out.status = "ok") =>
          /\ Len(out.value.results) = Len(arg)
          /\ \A i \in 1..Len(arg) : out.value.results[i].number = arg[i]
    /\ (op = "post_audit" /\ out.status = "ok") =>
          /\ Len(out.value.results) = Len(arg.numbers)
          /\ \A i \in 1..Len(arg.numbers) :
                out.value.results[i].number = arg.numbers[i]

\* a response of the endpoint with a rejected integer before a scored one
C6_Witness ==
    /\ op = "post_audit"
    /\ out.status = "ok"
    /\ Len(arg.numbers) = 2
    /\ arg.numbers[1] # arg.numbers[2]
    /\ out.value.results[1].classification = "artificial"
    /\ out.value.results[2].classification # "artificial"

\* C7: an audit of an empty batch or of more than ten integers is rejected
\* with an error before any integer is processed, in the engine and in the
\* endpoint.
C7_BatchSizeValidated ==
    /\ (op = "audit" /\ (Len(arg) < MinItems \/ Len(arg) > MaxItems)) =>
          /\ out.status = "error"
          /\ calls = <<>>
    /\ (op = "post_audit"
          /\ (Len(arg.numbers) < MinItems \/ Len(arg.numbers) > MaxItems)) =>
          /\ out = Err("ValidationError")
          /\ calls = <<>>

\* C8: the entries a calibrated audit returns for the same integer are equal
\* within a response, and equal to the entry an earlier response with the
\* same sensitivity held for it.
C8_BatchIndependent ==
    (op = "post_audit" /\ out.status = "ok") =>
        /\ \A i, j \in 1..Len(out.value.results) :
              out.value.results[i].number = out.value.results[j].number
                 => out.value.results[i] = out.value.results[j]
        /\ (HasPrev /\ prev.sensitivity = arg.sensitivity) =>
              \A i \in 1..Len(out.value.results) :
                 out.value.results[i].number = prev.entry.number
                    => out.value.results[i] = prev.entry

\* a scored integer kept from an earlier response comes back in second place,
\* behind another integer, under the same sensitivity
C8_Witness ==
    /\ op = "post_audit"
    /\ out.status = "ok"
    /\ HasPrev
    /\ prev.sensitivity = arg.sensitivity
    /\ prev.entry.classification = "atypical"
    /\ Len(arg.numbers) = 2
    /\ arg.numbers[1] # arg.numbers[2]
    /\ arg.numbers[2] = prev.entry.number

\* C9: structural_map raises on n <= 1, also on the value compute hands it:
\* every descriptor compute builds is that of an integer above 1.
C9_MapperRejectsSmall ==
    /\ (op = "structural_map" /\ arg <= 1) => out.status = "error"
    /\ op = "compute" =>
          \A k \in 1..Len(calls) :
             (calls[k].fn = "structural_map" /\ calls[k].arg <= 1)
                => calls[k].ret.status = "error"

\* C10: with exactly one modulus compute and audit complete for valid
\* integers, and entropy_norm is the raw entropy.
C10_SingleModulusGuard ==
    Len(moduli) = 1 =>
        /\ (op = "compute" /\ arg > 1) =>
              /\ out.status = "ok"
              /\ out.value.features.entropy_norm = out.value.features.entropy
        /\ (op = "audit" /\ arg # <<>> /\ \A i \in 1..Len(arg) : arg[i] > 1) =>
              out.status = "ok"

====
